---- MODULE Spec2Model ----
(***************************************************************************)
(* DNA sequence alignment tool (src/test1.cpp): a rolling-hash index over  *)
(* every substring of the reference on both strands, a dynamic program     *)
(* that covers the query with the fewest indexed pieces, and the walk that *)
(* turns the decisions into the reported segment list.                     *)
(*                                                                         *)
(* A string is a sequence of one-character strings.  A uint64 hash value   *)
(* is kept as two limbs <<hi, lo>> of base LIMB, value = hi * LIMB + lo,   *)
(* so that the reduction modulo MOD is computed and not assumed away.  A   *)
(* uint64 cost is kept in its two's-complement view (2^64 - k is -k), with *)
(* the unsigned order ULess.                                               *)
(***************************************************************************)
EXTENDS Integers, Sequences, FiniteSets

\* ---------------------------------------------------------------- bounds
\* the longest sequence typed, and the longest line typed with white space,
\* lower case or foreign letters in it
MaxLineLen == 3
MaxRawLen == 2

\* ------------------------------------------------------------- alphabets
DNA == {"A", "T", "C", "G"}
\* characters an input line may hold besides the upper-case alphabet: a
\* lower-case base, a lower-case and an upper-case letter outside the
\* alphabet, white space
RawChars == DNA \cup {"g", "n", "N", " "}

SeqsUpTo(S, n) == UNION {[1..k -> S] : k \in 0..n}

\* the lines the user may type
Lines == SeqsUpTo(DNA, MaxLineLen) \cup SeqsUpTo(RawChars, MaxRawLen)

\* ------------------------------------------------------ string helpers
isspace(c) == c = " "

toupper(c) ==
  CASE c = "g" -> "G"
    [] c = "n" -> "N"
    [] OTHER -> c

RECURSIVE SkipLeft(_)
SkipLeft(s) ==
  IF s # <<>> /\ isspace(Head(s)) THEN SkipLeft(Tail(s)) ELSE s

RECURSIVE SkipRight(_)
SkipRight(s) ==
  IF s # <<>> /\ isspace(s[Len(s)]) THEN SkipRight(SubSeq(s, 1, Len(s) - 1)) ELSE s

trim(s) == SkipRight(SkipLeft(s))

to_upper(s) == [i \in 1..Len(s) |-> toupper(s[i])]

\* the character at 0-based position i of s
At(s, i) == s[i + 1]

\* s[i..j], 0-based and inclusive
Sub(s, i, j) == SubSeq(s, i + 1, j + 1)

\* complement with the case for C mistyped
complementMistyped(c) ==
  CASE c = "A" -> "T"
    [] c = "T" -> "A"
    [] c = "C" -> "C"
    [] c = "G" -> "C"
    [] OTHER -> "?"

complement(c) ==
  CASE c = "A" -> "T"
    [] c = "T" -> "A"
    [] c = "C" -> "G"
    [] c = "G" -> "C"
    [] OTHER -> "?"

\* "?" marks the throw of the default branch
reverse_dna(dna) == [i \in 1..Len(dna) |-> complement(dna[Len(dna) + 1 - i])]

\* 0 marks the throw of the default branch
dna_to_num(c) ==
  CASE c = "A" -> 1
    [] c = "T" -> 2
    [] c = "C" -> 3
    [] c = "G" -> 4
    [] OTHER -> 0

\* the first character validate_dna rejects, 0 when it accepts the string
RECURSIVE FirstInvalid(_, _)
FirstInvalid(s, i) ==
  IF i > Len(s) THEN 0
  ELSE IF s[i] \notin DNA THEN i
  ELSE FirstInvalid(s, i + 1)

validate_dna(s) == FirstInvalid(s, 1) = 0

\* ------------------------------------------------------- rolling hash
LIMB == 10000000
MOD_HI == 1000000
MOD_LO == 7

\* v < w for two-limb values
LimbLess(v, w) == v[1] < w[1] \/ (v[1] = w[1] /\ v[2] < w[2])

\* v - w for v >= w
LimbSub(v, w) ==
  IF v[2] >= w[2] THEN <<v[1] - w[1], v[2] - w[2]>>
  ELSE <<v[1] - w[1] - 1, v[2] + LIMB - w[2]>>

\* v % MOD, by repeated subtraction (v < 6 * MOD wherever it is used)
RECURSIVE ModMOD(_)
ModMOD(v) ==
  IF LimbLess(v, <<MOD_HI, MOD_LO>>) THEN v
  ELSE ModMOD(LimbSub(v, <<MOD_HI, MOD_LO>>))

\* (hash * 5 + d) % MOD
RollHash(h, d) ==
  LET lo5 == h[2] * 5 + d
  IN ModMOD(<<h[1] * 5 + (lo5 \div LIMB), lo5 % LIMB>>)

ZeroHash == <<0, 0>>

\* the rolling hash of the whole string s
RECURSIVE HashOf(_)
HashOf(s) ==
  IF s = <<>> THEN ZeroHash
  ELSE RollHash(HashOf(SubSeq(s, 1, Len(s) - 1)), dna_to_num(s[Len(s)]))

\* ------------------------------------------------------------- costs
\* numeric_limits<uint64_t>::max() - 20 = 2^64 - 21
UNREACHABLE == 0 - 21

\* the comparison done on signed values
ULessSigned(a, b) == a < b

\* a < b as unsigned 64-bit values
ULess(a, b) == IF (a < 0) = (b < 0) THEN a < b ELSE b < 0

\* ------------------------------------------------------------- state
VARIABLES
  pc,         \* position in main
  ref_seq,    \* main: ref_seq
  query_seq,  \* main: query_seq
  ref_map,    \* main: ref_map, a function from the stored hashes to RefSeq
  dp,         \* find_optimal_path: dp
  trace,      \* find_optimal_path: trace
  pos,        \* reconstruct_path: pos
  result,     \* reconstruct_path: result
  error,      \* the failure that ended the run, "none" while there is none
  err_pos,    \* the position carried by the alignment break
  reported,   \* whether the segment list has been written
  exit_code,  \* -1 while running, then the process exit status
  reads       \* history: what each getline so far was given, see Given

vars == <<pc, ref_seq, query_seq, ref_map, dp, trace, pos,
          result, error, err_pos, reported, exit_code, reads>>

\* The history kept of one getline: whether a line was there, whether it was
\* blank, and whether the text between its outermost non-blank characters has
\* a character that is no base in either case.  These are stated on the line
\* as typed, not on what trim and to_upper make of it.
NonBlank(line) == {i \in 1..Len(line) : line[i] # " "}

Typed(line) ==
  IF NonBlank(line) = {} THEN <<>>
  ELSE SubSeq(line,
              CHOOSE i \in NonBlank(line) : \A k \in NonBlank(line) : i <= k,
              CHOOSE j \in NonBlank(line) : \A k \in NonBlank(line) : j >= k)

Given(got) ==
  [ok |-> got.ok,
   blank |-> got.ok /\ NonBlank(got.line) = {},
   foreign |-> got.ok /\ \E i \in 1..Len(Typed(got.line)) :
                 Typed(got.line)[i] \notin {"A", "T", "C", "G", "a", "t", "c", "g"}]

\* what getline yields: a line, or failure at the end of the input
Getline == {[ok |-> FALSE, line |-> <<>>]} \cup {[ok |-> TRUE, line |-> l] : l \in Lines}
NoTrace == [present |-> FALSE]
EmptyMap == [k \in {} |-> 0]

Init ==
  /\ pc = "read_ref"
  /\ ref_seq = <<>>
  /\ query_seq = <<>>
  /\ ref_map = EmptyMap
  /\ dp = <<>>
  /\ trace = <<>>
  /\ pos = 0
  /\ result = <<>>
  /\ error = "none"
  /\ err_pos = 0
  /\ reported = FALSE
  /\ exit_code = -1
  /\ reads = <<>>

\* return 1 with the given failure
Fail(kind) ==
  /\ pc' = "done"
  /\ error' = kind
  /\ exit_code' = 1

\* ------------------------------------------------------------- main
\* ReadReference without the emptiness test
ReadReferenceUnchecked ==
  /\ pc = "read_ref"
  /\ \E got \in Getline :
       /\ reads' = Append(reads, Given(got))
       /\ IF ~got.ok
          THEN /\ Fail("read")
               /\ UNCHANGED ref_seq
          ELSE /\ ref_seq' = to_upper(trim(got.line))
               /\ pc' = "read_query"
               /\ UNCHANGED <<error, exit_code>>
  /\ UNCHANGED <<query_seq, ref_map, dp, trace, pos, result,
                 err_pos, reported>>

\* getline, trim, to_upper and the emptiness test of the reference
ReadReference ==
  /\ pc = "read_ref"
  /\ \E got \in Getline :
       /\ reads' = Append(reads, Given(got))
       /\ IF ~got.ok
          THEN /\ Fail("read")
               /\ UNCHANGED ref_seq
          ELSE /\ ref_seq' = to_upper(trim(got.line))
               /\ IF ref_seq' = <<>>
                  THEN Fail("empty_ref")
                  ELSE /\ pc' = "read_query"
                       /\ UNCHANGED <<error, exit_code>>
  /\ UNCHANGED <<query_seq, ref_map, dp, trace, pos, result,
                 err_pos, reported>>

\* getline, trim, to_upper and the emptiness test of the query
ReadQuery ==
  /\ pc = "read_query"
  /\ \E got \in Getline :
       /\ reads' = Append(reads, Given(got))
       /\ IF ~got.ok
          THEN /\ Fail("read")
               /\ UNCHANGED query_seq
          ELSE /\ query_seq' = to_upper(trim(got.line))
               /\ IF query_seq' = <<>>
                  THEN Fail("empty_query")
                  ELSE /\ pc' = "validate"
                       /\ UNCHANGED <<error, exit_code>>
  /\ UNCHANGED <<ref_seq, ref_map, dp, trace, pos, result,
                 err_pos, reported>>

\* the two validate_dna calls
Validate ==
  /\ pc = "validate"
  /\ IF ~validate_dna(ref_seq) THEN Fail("invalid_ref")
     ELSE IF ~validate_dna(query_seq) THEN Fail("invalid_query")
     ELSE /\ pc' = "build_fwd"
          /\ UNCHANGED <<error, exit_code>>
  /\ UNCHANGED <<ref_seq, query_seq, ref_map, dp, trace, pos,
                 result, err_pos, reported, reads>>

\* ---------------------------------------------- build_reference_hash
\* Location without the translation to reference coordinates
LocationUntranslated(reverse, dna_len, s, e) ==
  [start |-> s, end |-> e, reverse |-> reverse]

\* Location without the strand tag
LocationUntagged(reverse, dna_len, s, e) ==
  IF reverse
  THEN [start |-> dna_len - e - 1, end |-> dna_len - s - 1, reverse |-> FALSE]
  ELSE [start |-> s, end |-> e, reverse |-> FALSE]

\* the location stored for substring [s, e] of the strand being scanned
Location(reverse, dna_len, s, e) ==
  IF reverse
  THEN [start |-> dna_len - e - 1, end |-> dna_len - s - 1, reverse |-> TRUE]
  ELSE [start |-> s, end |-> e, reverse |-> FALSE]

\* map[hash] = ref without the test
InsertAlways(map, h, ref) ==
  [k \in DOMAIN map \cup {h} |-> IF k = h THEN ref ELSE map[k]]

\* if (map.find(hash) == map.end()) map[hash] = ref
InsertIfAbsent(map, h, ref) ==
  IF h \in DOMAIN map THEN map
  ELSE [k \in DOMAIN map \cup {h} |-> IF k = h THEN ref ELSE map[k]]

\* dp and trace as find_optimal_path constructs them
InitialDp(query_len) == [i \in 0..query_len |-> IF i = query_len THEN 0 ELSE UNREACHABLE]
InitialTrace(query_len) == [i \in 0..query_len |-> NoTrace]

\* the inner loop of build_reference_hash for one start: end runs from e to
\* the end of seq, h is the running hash
RECURSIVE BuildInner(_, _, _, _, _, _)
BuildInner(map, seq, reverse, s, e, h) ==
  IF e >= Len(seq) THEN map
  ELSE LET h2 == RollHash(h, dna_to_num(At(seq, e)))
       IN BuildInner(InsertIfAbsent(map, h2, Location(reverse, Len(seq), s, e)),
                     seq, reverse, s, e + 1, h2)

\* reverse_dna or dna_to_num throws on seq
Throws(seq) == \E i \in 1..Len(seq) : dna_to_num(seq[i]) = 0

\* the outer loop of build_reference_hash: start runs from s to the end of seq
RECURSIVE BuildOuter(_, _, _, _)
BuildOuter(map, seq, reverse, s) ==
  IF s >= Len(seq) THEN map
  ELSE BuildOuter(BuildInner(map, seq, reverse, s, s, ZeroHash), seq, reverse, s + 1)

\* build_reference_hash(ref_seq, ref_map, reverse)
build_reference_hash(reverse) ==
  LET seq == IF reverse THEN reverse_dna(ref_seq) ELSE ref_seq
  IN
  IF Throws(seq)
  THEN /\ Fail("invalid_symbol")
       /\ UNCHANGED ref_map
  ELSE /\ ref_map' = BuildOuter(ref_map, seq, reverse, 0)
       /\ pc' = IF reverse THEN "plan" ELSE "build_rev"
       /\ UNCHANGED <<error, exit_code>>

BuildForward ==
  /\ pc = "build_fwd"
  /\ build_reference_hash(FALSE)
  /\ UNCHANGED <<ref_seq, query_seq, dp, trace, pos, result, err_pos, reported, reads>>

BuildReverse ==
  /\ pc = "build_rev"
  /\ build_reference_hash(TRUE)
  /\ UNCHANGED <<ref_seq, query_seq, dp, trace, pos, result, err_pos, reported, reads>>

\* ------------------------------------------------- find_optimal_path
\* Improves keeping the first match found
ImprovesFirstOnly(new_cost, cur, reverse) ==
  cur = UNREACHABLE /\ ULess(new_cost, cur)

\* Improves taking every tie, whatever the strand
ImprovesAnyTie(new_cost, cur, reverse) ==
  ULess(new_cost, cur) \/ new_cost = cur

\* new_cost < dp[start] || (new_cost == dp[start] && !it->second.reverse)
Improves(new_cost, cur, reverse) ==
  ULess(new_cost, cur) \/ (new_cost = cur /\ ~reverse)

\* Trace{it->second, end + 1, start, end}
MakeTrace(ref, s, e) ==
  [present |-> TRUE, ref_seq |-> ref, next |-> e + 1, query_start |-> s, query_end |-> e]

\* the inner loop of find_optimal_path for one start: end runs from e to the
\* end of query, h is the running hash, st holds dp and trace
RECURSIVE PlanInner(_, _, _, _, _, _)
PlanInner(st, query, map, s, e, h) ==
  IF e >= Len(query) THEN st
  ELSE LET h2 == RollHash(h, dna_to_num(At(query, e)))
           new_cost == st.dp[e + 1] + 1
           st2 == IF h2 \in DOMAIN map /\ Improves(new_cost, st.dp[s], map[h2].reverse)
                  THEN [dp |-> [st.dp EXCEPT ![s] = new_cost],
                        trace |-> [st.trace EXCEPT ![s] = MakeTrace(map[h2], s, e)]]
                  ELSE st
       IN PlanInner(st2, query, map, s, e + 1, h2)

\* the outer loop of find_optimal_path: start runs from s down to 0
RECURSIVE PlanOuter(_, _, _, _)
PlanOuter(st, query, map, s) ==
  IF s < 0 THEN st
  ELSE PlanOuter(PlanInner(st, query, map, s, s, ZeroHash), query, map, s - 1)

\* find_optimal_path(query_seq, ref_map), then the entry of reconstruct_path
find_optimal_path ==
  /\ pc = "plan"
  /\ IF Throws(query_seq)
     THEN /\ Fail("invalid_symbol")
          /\ UNCHANGED <<dp, trace, pos, result>>
     ELSE /\ UNCHANGED <<error, exit_code>>
          /\ LET query_len == Len(query_seq)
                 st == PlanOuter([dp |-> InitialDp(query_len), trace |-> InitialTrace(query_len)],
                                 query_seq, ref_map, query_len - 1)
             IN /\ dp' = st.dp
                /\ trace' = st.trace
          /\ pc' = "reconstruct"
          /\ pos' = 0
          /\ result' = <<>>
  /\ UNCHANGED <<ref_seq, query_seq, ref_map, err_pos, reported, reads>>

\* -------------------------------------------------- reconstruct_path
\* MakeSegment with the two query fields exchanged
MakeSegmentSwapped(t) ==
  [ref_info |-> t.ref_seq, query_start |-> t.query_end, query_end |-> t.query_start]

\* result.push_back({t.ref_seq, t.query_start, t.query_end})
MakeSegment(t) ==
  [ref_info |-> t.ref_seq, query_start |-> t.query_start, query_end |-> t.query_end]

\* one iteration of the while loop, then its test
ReconstructStep ==
  /\ pc = "reconstruct"
  /\ pos < Len(query_seq)
  /\ IF ~trace[pos].present
     THEN /\ Fail("alignment_break")
          /\ err_pos' = pos
          /\ UNCHANGED <<pos, result>>
     ELSE /\ result' = Append(result, MakeSegment(trace[pos]))
          /\ pos' = trace[pos].next
          /\ pc' = IF pos' < Len(query_seq) THEN "reconstruct" ELSE "report"
          /\ UNCHANGED <<error, err_pos, exit_code>>
  /\ UNCHANGED <<ref_seq, query_seq, ref_map, dp, trace, reported, reads>>

\* --------------------------------------------------- main, the report
\* ref_seq.substr(pos, n) throws out_of_range when pos > size()
SubstrThrows(seg) == seg.ref_info.start > Len(ref_seq)

Report ==
  /\ pc = "report"
  /\ IF \E k \in 1..Len(result) : SubstrThrows(result[k])
     THEN /\ Fail("out_of_range")
          /\ UNCHANGED reported
     ELSE /\ reported' = TRUE
          /\ exit_code' = 0
          /\ pc' = "done"
          /\ UNCHANGED error
  /\ UNCHANGED <<ref_seq, query_seq, ref_map, dp, trace, pos,
                 result, err_pos, reads>>

Next ==
  \/ ReadReference
  \/ ReadQuery
  \/ Validate
  \/ BuildForward
  \/ BuildReverse
  \/ find_optimal_path
  \/ ReconstructStep
  \/ Report

Spec == Init /\ [][Next]_vars

\* =================================================== the properties
\* Definitions used to state the properties; they are written from the
\* meaning of the terms, not from the program's loops.

QLen == Len(query_seq)
RLen == Len(ref_seq)

Min(S) == CHOOSE x \in S : \A y \in S : x <= y
Max(S) == CHOOSE x \in S : \A y \in S : x >= y

\* the Watson-Crick pairing
Pair(c) ==
  CASE c = "A" -> "T"
    [] c = "T" -> "A"
    [] c = "C" -> "G"
    [] c = "G" -> "C"
    [] OTHER -> "?"

ReverseComplement(s) == [i \in 1..Len(s) |-> Pair(s[Len(s) + 1 - i])]

IsSubstring(x, s) ==
  \E a \in 1..(Len(s) - Len(x) + 1) : SubSeq(s, a, a + Len(x) - 1) = x

\* both lines were read, and both are non-empty strings over the alphabet
ValidInputs ==
  /\ Len(reads) = 2
  /\ \A k \in 1..2 : reads[k].ok /\ ~reads[k].blank /\ ~reads[k].foreign

\* the second build_reference_hash has just returned (ref_map is not
\* assigned after it)
IndexBuilt == pc = "plan"

\* find_optimal_path has just returned (dp and trace are not assigned after
\* it)
PlannerDone == pc = "reconstruct" /\ pos = 0

\* reconstruct_path has just returned its segments
Returned == pc = "report"

\* the matches of the query in the index: the ranges <<i, j>> for which the
\* rolling hash of query[i..j] is a key, each with the location stored
Matches ==
  LET hashed == [p \in {q \in (0..(QLen - 1)) \X (0..(QLen - 1)) : q[1] <= q[2]} |->
                   HashOf(Sub(query_seq, p[1], p[2]))]
  IN [p \in {q \in DOMAIN hashed : hashed[q] \in DOMAIN ref_map} |-> ref_map[hashed[p]]]

\* the positions i in 0..QLen from which the rest of the query is a chain of
\* ranges of P: QLen is one, and i is one when some range <<i, j>> of P ends
\* right before one; S holds those above i
RECURSIVE ChainStarts(_, _, _)
ChainStarts(P, i, S) ==
  IF i < 0 THEN S
  ELSE ChainStarts(P, i - 1,
         IF \E j \in i..(QLen - 1) : <<i, j>> \in P /\ j + 1 \in S
         THEN S \cup {i} ELSE S)

Coverable(P) == ChainStarts(P, QLen - 1, {QLen})

\* the pieces of the query cut before each position of C
Pieces(C) ==
  {<<a, Min({c \in C \cup {QLen} : c > a}) - 1>> : a \in C \cup {0}}

\* C1: the returned segments start at query position 0, each has
\* query_start <= query_end, each starts right after the one before it ends,
\* and the last ends at query_len - 1: they partition [0, query_len) in
\* ascending order.
C1_Partition ==
  Returned =>
    /\ Len(result) >= 1
    /\ result[1].query_start = 0
    /\ result[Len(result)].query_end = QLen - 1
    /\ \A k \in 1..Len(result) : result[k].query_start <= result[k].query_end
    /\ \A k \in 1..(Len(result) - 1) :
         /\ result[k].query_end + 1 = result[k + 1].query_start
         /\ result[k].query_start < result[k + 1].query_start

C1_Witness ==
  /\ Returned
  /\ Len(result) >= 2
  /\ \E k \in 1..Len(result) : result[k].query_start < result[k].query_end

\* C2: the number of returned segments is dp[0], and no cutting of the query
\* into indexed pieces has fewer pieces.
C2_Minimal ==
  Returned =>
    /\ Len(result) = dp[0]
    /\ LET m == Matches
       IN \A C \in SUBSET (1..(QLen - 1)) :
            Cardinality(C) + 1 < Len(result) => ~(Pieces(C) \subseteq DOMAIN m)

\* a run where a chaining with more pieces exists as well
C2_Witness ==
  /\ Returned
  /\ Len(result) >= 2
  /\ LET m == Matches
     IN \E C \in SUBSET (1..(QLen - 1)) :
          Cardinality(C) + 1 > Len(result) /\ Pieces(C) \subseteq DOMAIN m

\* C3: every returned segment lies inside the reference, is as long as its
\* query range, and the query text of the range is the reference text at the
\* location, read forward or as its reverse complement according to the tag.
C3_ExactMatch ==
  Returned =>
    \A k \in 1..Len(result) :
      LET seg == result[k]
          loc == seg.ref_info
      IN /\ 0 <= loc.start /\ loc.start <= loc.end /\ loc.end < RLen
         /\ loc.end - loc.start = seg.query_end - seg.query_start
         /\ Sub(query_seq, seg.query_start, seg.query_end) =
              IF loc.reverse
              THEN ReverseComplement(Sub(ref_seq, loc.start, loc.end))
              ELSE Sub(ref_seq, loc.start, loc.end)

\* a reverse-complement segment longer than one symbol that does not sit at
\* the mirror image of its own place
C3_Witness ==
  /\ Returned
  /\ \E k \in 1..Len(result) :
       /\ result[k].ref_info.reverse
       /\ result[k].ref_info.start < result[k].ref_info.end
       /\ result[k].ref_info.start # RLen - 1 - result[k].ref_info.end

\* the ends e for which the match query[i..e] of m achieves dp[i]
OptEnds(m, i) == {e \in i..(QLen - 1) : <<i, e>> \in DOMAIN m /\ dp[e + 1] + 1 = dp[i]}
FwdOptEnds(m, i) == {e \in OptEnds(m, i) : ~m[<<i, e>>].reverse}

\* C4: at every start whose suffix can be covered, if a forward match achieves
\* the optimal cost then the decision kept is forward, and it is the forward
\* match of optimal cost with the largest query_end.
C4_TieBreak ==
  PlannerDone =>
    LET m == Matches
        cov == Coverable(DOMAIN m)
    IN \A i \in 0..(QLen - 1) :
         LET fwd == FwdOptEnds(m, i)
         IN (i \in cov /\ fwd # {}) =>
              /\ trace[i].present
              /\ ~trace[i].ref_seq.reverse
              /\ trace[i].query_start = i
              /\ trace[i].query_end = Max(fwd)
              /\ trace[i].ref_seq = m[<<i, Max(fwd)>>]

\* a start where a reverse-complement match of the optimal cost comes after
\* the forward one in the scan
C4_Witness ==
  /\ PlannerDone
  /\ LET m == Matches
     IN \E i \in 0..(QLen - 1) :
          /\ i \in Coverable(DOMAIN m)
          /\ FwdOptEnds(m, i) # {}
          /\ \E e \in OptEnds(m, i) \ FwdOptEnds(m, i) : e > Max(FwdOptEnds(m, i))

\* the query positions whose symbol is on neither strand of the reference
AbsentPositions ==
  {p \in 0..(QLen - 1) :
     \A r \in 1..RLen : ref_seq[r] # At(query_seq, p) /\ Pair(ref_seq[r]) # At(query_seq, p)}

\* C5: a query with a symbol on neither strand of the reference fails with an
\* alignment break that carries the query position of the first such symbol.
C5_BreakAtSymbol ==
  (pc = "done" /\ ValidInputs /\ AbsentPositions # {}) =>
    /\ error = "alignment_break"
    /\ err_pos = Min(AbsentPositions)

\* the ranges <<i, j>> for which query[i..j] occurs in the reference or in
\* its reverse complement
Occurring ==
  LET rc == ReverseComplement(ref_seq)
  IN {q \in (0..(QLen - 1)) \X (0..(QLen - 1)) :
        /\ q[1] <= q[2]
        /\ \/ IsSubstring(Sub(query_seq, q[1], q[2]), ref_seq)
           \/ IsSubstring(Sub(query_seq, q[1], q[2]), rc)}

\* the whole query is a chain of such occurrences
HasCoveringPath == 0 \in Coverable(Occurring)

ReadFailed == \E k \in 1..Len(reads) : ~reads[k].ok
EmptyReference == Len(reads) >= 1 /\ reads[1].blank
EmptyQuery == Len(reads) = 2 /\ reads[2].blank
ForeignCharacter == \E k \in 1..Len(reads) : reads[k].foreign

FailureCause ==
  \/ ReadFailed
  \/ EmptyReference
  \/ EmptyQuery
  \/ ForeignCharacter
  \/ ~HasCoveringPath

\* C6: a finished run has exit status 1 and no report exactly when a line
\* could not be read, the reference or the query is empty after trimming or
\* holds a character outside the alphabet after upper-casing, or the query has
\* no covering path; otherwise it has exit status 0 and a reported segment
\* list.  For empty input neither the index build nor the planner has run.
C6_ExitStatus ==
  pc = "done" =>
    /\ exit_code \in {0, 1}
    /\ exit_code = 1 <=> FailureCause
    /\ exit_code = 1 => ~reported
    /\ exit_code = 0 => reported /\ Len(result) >= 1
    /\ (EmptyReference \/ EmptyQuery) => ref_map = EmptyMap /\ dp = <<>>

\* the reference is blank although its line was read
C6_Witness ==
  /\ pc = "done"
  /\ EmptyReference
  /\ exit_code = 1

\* the location of a single symbol c: one position, holding c on its strand
HoldsSymbol(loc, c) ==
  /\ loc.start = loc.end
  /\ loc.start \in 0..(RLen - 1)
  /\ c = IF loc.reverse THEN Pair(At(ref_seq, loc.start)) ELSE At(ref_seq, loc.start)

\* C7: after both passes the index has, for every symbol of the reference and
\* for its complement, the key of that single symbol, mapped to one position
\* of the reference that holds the symbol on the recorded strand.
C7_SingleSymbols ==
  IndexBuilt =>
    \A p \in 0..(RLen - 1) :
      \A c \in {At(ref_seq, p), Pair(At(ref_seq, p))} :
        /\ <<0, dna_to_num(c)>> \in DOMAIN ref_map
        /\ HoldsSymbol(ref_map[<<0, dna_to_num(c)>>], c)

\* a symbol that the index holds on the reverse-complement strand only
C7_Witness ==
  /\ IndexBuilt
  /\ RLen >= 2
  /\ \E p \in 0..(RLen - 1) :
       LET c == Pair(At(ref_seq, p))
       IN /\ <<0, dna_to_num(c)>> \in DOMAIN ref_map
          /\ ref_map[<<0, dna_to_num(c)>>].reverse

\* the query is the reverse complement of a reference that is not its own
QueryIsReverseComplement ==
  /\ ValidInputs
  /\ ref_seq # ReverseComplement(ref_seq)
  /\ query_seq = ReverseComplement(ref_seq)

\* C8: aligning the reverse complement of a reference that differs from it
\* returns the single segment with query range [0, n-1], reference range
\* [0, n-1] and the reverse-complement tag.
C8_WholeReverse ==
  (pc = "done" /\ QueryIsReverseComplement) =>
    /\ exit_code = 0
    /\ reported
    /\ result = <<[ref_info |-> [start |-> 0, end |-> RLen - 1, reverse |-> TRUE],
                   query_start |-> 0, query_end |-> RLen - 1]>>

C8_Witness ==
  /\ pc = "done"
  /\ QueryIsReverseComplement
  /\ RLen >= 2

\* the substrings of the two strands, in the order the passes visit them
Occurrences ==
  {o \in BOOLEAN \X (0..(RLen - 1)) \X (0..(RLen - 1)) : o[2] <= o[3]}

Before(a, b) ==
  \/ ~a[1] /\ b[1]
  \/ a[1] = b[1] /\ a[2] < b[2]
  \/ a[1] = b[1] /\ a[2] = b[2] /\ a[3] < b[3]

OccurrenceText(o) ==
  Sub(IF o[1] THEN ReverseComplement(ref_seq) ELSE ref_seq, o[2], o[3])

\* the occurrence in reference coordinates
OccurrenceLocation(o) ==
  IF o[1]
  THEN [start |-> RLen - 1 - o[3], end |-> RLen - 1 - o[2], reverse |-> TRUE]
  ELSE [start |-> o[2], end |-> o[3], reverse |-> FALSE]

\* every key holds the first occurrence producing it, and every occurrence
\* has its key
FirstWins ==
  LET table == {<<o, HashOf(OccurrenceText(o))>> : o \in Occurrences}
  IN /\ DOMAIN ref_map = {t[2] : t \in table}
     /\ \A t \in table :
          (\A u \in table : u[2] = t[2] => (u[1] = t[1] \/ Before(t[1], u[1])))
            => ref_map[t[2]] = OccurrenceLocation(t[1])

\* an entry of the index stays as it is
EntriesKept ==
  \A k \in DOMAIN ref_map : k \in DOMAIN ref_map' /\ ref_map'[k] = ref_map[k]

\* C9: no step changes or removes an entry of the index, and the finished
\* index holds for every hash the first substring producing it, forward pass
\* before reverse-complement pass, ascending start, then ascending end.
C9_FirstInsertionWins ==
  /\ [](IndexBuilt => FirstWins)
  /\ [][EntriesKept]_vars

\* a finished index where a text occurs twice on the forward strand and again
\* on the reverse-complement strand
C9_Witness ==
  /\ IndexBuilt
  /\ \E a, b, c \in Occurrences :
       /\ ~a[1] /\ ~b[1] /\ c[1]
       /\ a[2] < b[2]
       /\ OccurrenceText(a) = OccurrenceText(b)
       /\ OccurrenceText(a) = OccurrenceText(c)
       /\ ref_map[HashOf(OccurrenceText(a))] = OccurrenceLocation(a)

====
